---------------------------- MODULE Spec2Model ----------------------------
(***************************************************************************)
(* pheddit: an in-memory search service over a corpus of posts.            *)
(*                                                                         *)
(* The model follows src/src/main.rs: rocket() loads every line of every   *)
(* .json file into Posts.map and only then serves; the handlers search,    *)
(* post and candidates read the map.  Strings are sequences of one-        *)
(* character strings, so that splitting, escaping, pattern compilation and *)
(* matching are computed character by character.                           *)
(***************************************************************************)
EXTENDS Integers, Sequences, FiniteSets, TLC

(***************************************************************************)
(* Bounds of the model.                                                    *)
(***************************************************************************)
\* number of requests that may be in flight at once in SpecConc
MaxRequests == 2
\* width of usize in the model (the wrap-around of n * len is kept)
UsizeBits == 16
\* longest query, title and body drawn in SpecSearch
MaxQueryLen == 3
MaxTitleLen == 3
MaxBodyLen == 1

(***************************************************************************)
(* Characters.                                                             *)
(***************************************************************************)
Lowers == <<"a", "b", "c", "d", "e", "f", "g", "h", "i", "j", "k", "l", "m", "n", "o", "p", "q", "r", "s", "t", "u", "v", "w", "x", "y", "z">>
Uppers == <<"A", "B", "C", "D", "E", "F", "G", "H", "I", "J", "K", "L", "M", "N", "O", "P", "Q", "R", "S", "T", "U", "V", "W", "X", "Y", "Z">>
Digits == <<"0", "1", "2", "3", "4", "5", "6", "7", "8", "9">>

\* the characters of the model, in byte order
Ascii == <<"\t", " ", "!", "+", ".">> \o Digits \o Uppers \o <<"_">> \o Lowers

Range(s) == {s[i] : i \in 1..Len(s)}

Chars == Range(Ascii)

\* byte value order of a character (str's Ord compares bytes)
CodeOf == [c \in Chars |-> CHOOSE i \in 1..Len(Ascii) : Ascii[i] = c]

\* simple case folding, as (?i) applies it
FoldOf == [c \in Chars |->
             IF c \in Range(Uppers)
               THEN Lowers[CHOOSE i \in 1..26 : Uppers[i] = c]
               ELSE c]

\* \w of the regex crate: letters, digits and the connector "_"
WordChars == Range(Lowers) \cup Range(Uppers) \cup Range(Digits) \cup {"_"}

\* char::is_whitespace
Whitespace == {" ", "\t"}

\* regex_syntax::is_meta_character
MetaChars == {"\\", ".", "+", "*", "?", "(", ")", "|", "[", "]", "{", "}",
              "^", "$", "#", "&", "-", "~"}

(***************************************************************************)
(* str::split_whitespace: the maximal runs of non-whitespace characters,   *)
(* in order.                                                               *)
(***************************************************************************)
RECURSIVE SplitFrom(_, _, _)
SplitFrom(s, i, cur) ==
  IF i > Len(s)
    THEN IF cur = <<>> THEN <<>> ELSE <<cur>>
    ELSE IF s[i] \in Whitespace
           THEN IF cur = <<>>
                  THEN SplitFrom(s, i + 1, <<>>)
                  ELSE <<cur>> \o SplitFrom(s, i + 1, <<>>)
           ELSE SplitFrom(s, i + 1, Append(cur, s[i]))

split_whitespace(s) == SplitFrom(s, 1, <<>>)

(***************************************************************************)
(* regex::escape: a backslash before every meta character.                 *)
(***************************************************************************)
RECURSIVE escape(_)
escape(word) ==
  IF word = <<>>
    THEN <<>>
    ELSE (IF Head(word) \in MetaChars
            THEN <<"\\", Head(word)>>
            ELSE <<Head(word)>>) \o escape(Tail(word))

\* format!(r"(?i)\b{}\b", regex::escape(word))
Pattern(word) == <<"(", "?", "i", ")">> \o <<"\\", "b">> \o escape(word) \o <<"\\", "b">>

(***************************************************************************)
(* Regex::new on the pattern language that Pattern produces: an optional   *)
(* leading (?i), then literals, escaped meta characters and \b.  Anything  *)
(* else (an unescaped meta character, a dangling or unknown escape) makes  *)
(* the item "err" and the compilation fail.                                *)
(***************************************************************************)
RECURSIVE ParseItems(_, _)
ParseItems(p, i) ==
  IF i > Len(p)
    THEN <<>>
    ELSE IF p[i] = "\\"
           THEN IF i = Len(p)
                  THEN <<[k |-> "err", c |-> ""]>>
                  ELSE IF p[i + 1] = "b"
                         THEN <<[k |-> "wb", c |-> ""]>> \o ParseItems(p, i + 2)
                         ELSE IF p[i + 1] \in MetaChars
                                THEN <<[k |-> "lit", c |-> p[i + 1]]>>
                                       \o ParseItems(p, i + 2)
                                ELSE <<[k |-> "err", c |-> ""]>>
           ELSE IF p[i] \in MetaChars
                  THEN <<[k |-> "err", c |-> ""]>>
                  ELSE <<[k |-> "lit", c |-> p[i]]>> \o ParseItems(p, i + 1)

HasFlagI(p) == Len(p) >= 4 /\ SubSeq(p, 1, 4) = <<"(", "?", "i", ")">>

RegexNew(p) ==
  LET ci == HasFlagI(p)
      items == ParseItems(p, IF ci THEN 5 ELSE 1)
  IN  [ok |-> \A j \in 1..Len(items) : items[j].k # "err",
       ci |-> ci,
       items |-> items]

(***************************************************************************)
(* Regex::is_match: the items match consecutively from some position of    *)
(* the text.  \b holds at a position where exactly one of the characters   *)
(* before and after it is a word character.                                *)
(***************************************************************************)
IsWordAt(text, p) == p >= 1 /\ p <= Len(text) /\ text[p] \in WordChars

WordBoundary(text, p) == IsWordAt(text, p) # IsWordAt(text, p + 1)

CharEq(ci, a, b) == IF ci THEN FoldOf[a] = FoldOf[b] ELSE a = b

RECURSIVE MatchAt(_, _, _, _)
MatchAt(re, j, text, p) ==
  IF j > Len(re.items)
    THEN TRUE
    ELSE IF re.items[j].k = "wb"
           THEN WordBoundary(text, p) /\ MatchAt(re, j + 1, text, p)
           ELSE /\ p + 1 <= Len(text)
                /\ CharEq(re.ci, text[p + 1], re.items[j].c)
                /\ MatchAt(re, j + 1, text, p + 1)

is_match(re, text) == \E p \in 0..Len(text) : MatchAt(re, 1, text, p)

(***************************************************************************)
(* The matchers of one query: a word whose pattern does not compile is     *)
(* dropped (if let Ok(re) = ...).                                          *)
(***************************************************************************)
RECURSIVE CompileWords(_)
CompileWords(words) ==
  IF words = <<>>
    THEN <<>>
    ELSE LET re == RegexNew(Pattern(Head(words)))
         IN  (IF re.ok THEN <<re>> ELSE <<>>) \o CompileWords(Tail(words))

Matchers(query) == CompileWords(split_whitespace(query))

(***************************************************************************)
(* serde_json::Value of a post, as far as the program reads it: the fields *)
(* id, title and selftext, each a string, absent, or of another type.      *)
(***************************************************************************)
Str(s) == [t |-> "str", s |-> s]
Absent == [t |-> "absent", s |-> <<>>]
NonStr == [t |-> "other", s |-> <<>>]

Value(id, title, selftext) == [id |-> id, title |-> title, selftext |-> selftext]

\* value.get(key).and_then(|v| v.as_str()).unwrap_or("")
get_str(value, key) == IF value[key].t = "str" THEN value[key].s ELSE <<>>

(***************************************************************************)
(* The corpus on disk: the directories named on the command line, their    *)
(* files and the lines of each file.                                       *)
(***************************************************************************)
Line(post) == [json |-> TRUE, post |-> post]
Junk == [json |-> FALSE, post |-> Value(Absent, Absent, Absent)]

File(ext, opens, lines) == [ext |-> ext, opens |-> opens, lines |-> lines]
Dir(readable, files) == [readable |-> readable, files |-> files]

\* {"id":"1","title":"Switching careers into programming","selftext":""}
P1 == Value(Str(<<"1">>), Str(<<"S", "w", "i", "t", "c", "h", "i", "n", "g", " ", "c", "a", "r", "e", "e", "r", "s", " ", "i", "n", "t", "o", " ", "p", "r", "o", "g", "r", "a", "m", "m", "i", "n", "g">>), Str(<<>>))
\* {"id":"2","title":"Cat photos","selftext":"cute cats"}
P2 == Value(Str(<<"2">>), Str(<<"C", "a", "t", " ", "p", "h", "o", "t", "o", "s">>), Str(<<"c", "u", "t", "e", " ", "c", "a", "t", "s">>))
\* {"id":"10","title":"Self made","selftext":"taught"}
P3 == Value(Str(<<"1", "0">>), Str(<<"S", "e", "l", "f", " ", "m", "a", "d", "e">>), Str(<<"t", "a", "u", "g", "h", "t">>))
\* {"id":"3","selftext":"Learning C++"}
P4 == Value(Str(<<"3">>), Absent, Str(<<"L", "e", "a", "r", "n", "i", "n", "g", " ", "C", "+", "+">>))
\* {"id":"4","title":"self help","selftext":7}
P5 == Value(Str(<<"4">>), Str(<<"s", "e", "l", "f", " ", "h", "e", "l", "p">>), NonStr)
\* {"id":"2","title":"BOOTCAMP!","selftext":""}
P6 == Value(Str(<<"2">>), Str(<<"B", "O", "O", "T", "C", "A", "M", "P", "!">>), Str(<<>>))
\* {"title":"Myself taught","selftext":"schools"}
P7 == Value(Absent, Str(<<"M", "y", "s", "e", "l", "f", " ", "t", "a", "u", "g", "h", "t">>), Str(<<"s", "c", "h", "o", "o", "l", "s">>))

FA == File("json", TRUE, <<Line(P1), Line(P2)>>)
FB == File("json", TRUE, <<Line(P3), Line(P4)>>)
FC == File("json", TRUE, <<Line(P6), Line(P5)>>)
FD == File("json", TRUE, <<Line(P7)>>)
FE == File("json", TRUE, <<Line(P1), Line(P6)>>)
FEmpty == File("json", TRUE, <<>>)
FJunk == File("json", TRUE, <<Line(P1), Junk>>)
FNoOpen == File("json", FALSE, <<>>)
FTxt == File("txt", FALSE, <<Junk>>)

\* the corpora of the model, by name: the directories named on the command
\* line, as they are on disk
DirsOf(name) ==
  CASE name = "none" -> <<>>
    [] name = "example" -> <<Dir(TRUE, <<FA>>)>>
    [] name = "two_dirs" -> <<Dir(TRUE, <<FA, FTxt>>), Dir(TRUE, <<FB>>)>>
    [] name = "same_id" -> <<Dir(TRUE, <<FA, FC>>)>>
    [] name = "odd_fields" -> <<Dir(TRUE, <<FB, FC>>)>>
    [] name = "four_topics" -> <<Dir(TRUE, <<FB>>), Dir(TRUE, <<FE>>)>>
    [] name = "no_id" -> <<Dir(TRUE, <<FD, FEmpty>>)>>
    [] name = "two_topics" -> <<Dir(TRUE, <<FE>>)>>
    [] name = "bad_dir" -> <<Dir(TRUE, <<FA>>), Dir(FALSE, <<>>)>>
    [] name = "bad_file" -> <<Dir(TRUE, <<FA, FNoOpen>>)>>
    [] name = "bad_file_only" -> <<Dir(TRUE, <<FTxt, FNoOpen>>)>>
    [] name = "bad_line" -> <<Dir(TRUE, <<FJunk, FB>>)>>
    [] name = "bad_line_only" -> <<Dir(TRUE, <<FJunk>>)>>

Corpora == {"none", "example", "two_dirs", "same_id", "odd_fields",
            "four_topics", "no_id", "bad_dir", "bad_file", "bad_line"}

ConcCorpora == {"example", "two_topics", "bad_dir", "bad_file_only",
                "bad_line_only"}

\* a corpus of the model: a named one, or ("single") one file whose one line
\* is the post with id "1" and the given title and selftext
Named(name) == [name |-> name, title |-> Absent, selftext |-> Absent]
Single(title, selftext) ==
  [name |-> "single", title |-> title, selftext |-> selftext]

Args(c) ==
  IF c.name = "single"
    THEN <<Dir(TRUE, <<File("json", TRUE,
                            <<Line(Value(Str(<<"1">>), c.title, c.selftext))>>)>>)>>
    ELSE DirsOf(c.name)

\* the requests the model sends
Queries ==
  { <<>>,
    <<" ", "\t">>,
    <<"p", "r", "o", "g", "r", "a", "m", "m", "i", "n", "g">>,
    <<"c", "a", "t">>,
    <<"S", "E", "L", "F", " ", " ", "t", "a", "u", "g", "h", "t">>,
    <<"c", "+", "+">>,
    <<"l", "e", "a", "r", "n", "i", "n", "g", " ", "c", "+", "+">> }
UsizeMax == 2 ^ UsizeBits - 1
BucketInputs == {0, 1, 2, 3, 4, UsizeMax}
LookupIds == { <<"1">>, <<"2">>, <<"3">>, <<"4">>, <<"1", "0">>, <<"7">> }

(***************************************************************************)
(* State.                                                                  *)
(***************************************************************************)
VARIABLES
  corpus,           \* which corpus the command line names
  overflow_checks,  \* whether the build panics on integer overflow
  slots,            \* the requests that may be in flight
  pc,               \* rocket(): "read_dirs", "loading", "serving", "aborted"
  argi,             \* the next argument read_dir is applied to
  paths,            \* the .json paths collected, with the progress of each
  posts,            \* Posts.map
  reqs              \* the handler run of each request in flight

vars == <<corpus, overflow_checks, slots, pc, argi, paths, posts, reqs>>

\* env::args().skip(1): the directories, as they are on disk
args == Args(corpus)

EmptyMap == [k \in {} |-> Absent]

\* HashMap::insert
Insert(map, key, value) ==
  [k \in DOMAIN map \cup {key} |-> IF k = key THEN value ELSE map[k]]

NoPage == [start |-> 0, end |-> 0, count |-> 0, records |-> <<>>,
           title |-> <<>>, markdown |-> <<>>]

Idle == [st |-> "idle", op |-> "none", query |-> <<>>, n |-> 0, id |-> <<>>,
         todo |-> {}, matches |-> <<>>,
         outcome |-> "none", page |-> NoPage]

InitWith(corpora, requests) ==
  /\ corpus \in {Named(name) : name \in corpora}
  /\ overflow_checks \in BOOLEAN
  /\ slots = requests
  /\ pc = "read_dirs"
  /\ argi = 1
  /\ paths = <<>>
  /\ posts = EmptyMap
  /\ reqs = [r \in requests |-> Idle]

Init == InitWith(Corpora, {1})

InitConc == InitWith(ConcCorpora, 1..MaxRequests)

(***************************************************************************)
(* rocket(): the paths are collected, then every line of every file is     *)
(* parsed and inserted, then the server is built.  Every unwrap() that     *)
(* fails ends the process.                                                 *)
(***************************************************************************)
\* the .json entries of directory d, none of them opened yet
RECURSIVE JsonPaths(_, _)
JsonPaths(d, f) ==
  IF f > Len(args[d].files)
    THEN <<>>
    ELSE (IF args[d].files[f].ext = "json"
            THEN <<[dir |-> d, file |-> f, opened |-> FALSE, next |-> 1]>>
            ELSE <<>>) \o JsonPaths(d, f + 1)

FileAt(e) == args[e.dir].files[e.file]

\* fs::read_dir(&arg).unwrap(), one argument at a time, keeping the .json paths
read_dir ==
  /\ pc = "read_dirs"
  /\ argi <= Len(args)
  /\ IF args[argi].readable
       THEN /\ paths' = paths \o JsonPaths(argi, 1)
            /\ argi' = argi + 1
            /\ pc' = pc
       ELSE /\ pc' = "aborted"
            /\ UNCHANGED <<paths, argi>>
  /\ UNCHANGED <<corpus, overflow_checks, slots, posts, reqs>>

\* .collect() of the paths: the parallel load starts
collect_paths ==
  /\ pc = "read_dirs"
  /\ argi > Len(args)
  /\ pc' = "loading"
  /\ UNCHANGED <<corpus, overflow_checks, slots, argi, paths, posts, reqs>>

\* File::open(path).unwrap()
open_file(i) ==
  /\ pc = "loading"
  /\ ~paths[i].opened
  /\ IF FileAt(paths[i]).opens
       THEN /\ paths' = [paths EXCEPT ![i].opened = TRUE]
            /\ pc' = pc
       ELSE /\ pc' = "aborted"
            /\ paths' = paths
  /\ UNCHANGED <<corpus, overflow_checks, slots, argi, posts, reqs>>

\* from_str::<Value>(&line).unwrap() and the insertion under get_str(&post, "id")
parse_line(i) ==
  /\ pc = "loading"
  /\ paths[i].opened
  /\ paths[i].next <= Len(FileAt(paths[i]).lines)
  /\ LET line == FileAt(paths[i]).lines[paths[i].next]
     IN  IF line.json
           THEN /\ posts' = Insert(posts, get_str(line.post, "id"), line.post)
                /\ paths' = [paths EXCEPT ![i].next = @ + 1]
                /\ pc' = pc
           ELSE /\ pc' = "aborted"
                /\ UNCHANGED <<posts, paths>>
  /\ UNCHANGED <<corpus, overflow_checks, slots, argi, reqs>>

FileDone(e) == e.opened /\ e.next > Len(FileAt(e).lines)

\* launch with a fault: the server is built once one file is loaded
launch_early ==
  /\ pc = "loading"
  /\ \E i \in 1..Len(paths) : FileDone(paths[i])
  /\ pc' = "serving"
  /\ UNCHANGED <<corpus, overflow_checks, slots, argi, paths, posts, reqs>>

\* rocket::build().manage(posts).mount(...): the map is complete
launch ==
  /\ pc = "loading"
  /\ \A i \in 1..Len(paths) : FileDone(paths[i])
  /\ pc' = "serving"
  /\ UNCHANGED <<corpus, overflow_checks, slots, argi, paths, posts, reqs>>

(***************************************************************************)
(* The handlers.  A handler compiles its matchers, scans the map with      *)
(* par_iter (the records are taken in any order, one per step), and then   *)
(* builds its page.                                                        *)
(***************************************************************************)
\* AllMatch with a fault: any matcher instead of every matcher
AllMatch_Any(res, title, text) ==
  \E i \in 1..Len(res) : is_match(res[i], title) \/ is_match(res[i], text)

\* res.iter().all(|re| re.is_match(title) || re.is_match(text))
AllMatch(res, title, text) ==
  \A i \in 1..Len(res) : is_match(res[i], title) \/ is_match(res[i], text)

\* AnyGroup with a fault: one word of a group is enough
AnyGroup_AnyWord(res, title, text) ==
  \E g \in 1..Len(res) : \E i \in 1..Len(res[g]) :
    is_match(res[g][i], title) \/ is_match(res[g][i], text)

\* res.iter().any(|terms| terms.iter().all(...))
AnyGroup(res, title, text) ==
  \E g \in 1..Len(res) : AllMatch(res[g], title, text)

\* the vec! of candidates()
queries ==
  << <<"d", "e", "g", "r", "e", "e">>,
     <<"c", "a", "r", "e", "e", "r">>, <<"c", "a", "r", "e", "e", "r", "s">>,
     <<"p", "r", "o", "g", "r", "a", "m", "m", "i", "n", "g">>,
     <<"s", "c", "h", "o", "o", "l">>,
     <<"l", "e", "a", "r", "n">>, <<"l", "e", "a", "r", "n", "i", "n", "g">>,
     <<"s", "w", "i", "t", "c", "h">>, <<"s", "w", "i", "t", "c", "h", "i", "n", "g">>,
     <<"c", "h", "a", "n", "g", "e">>, <<"c", "h", "a", "n", "g", "i", "n", "g">>,
     <<"c", "o", "l", "l", "e", "g", "e">>, <<"u", "n", "i", "v", "e", "r", "s", "i", "t", "y">>,
     <<"a", "d", "v", "i", "c", "e">>,
     <<"b", "o", "o", "t", "c", "a", "m", "p">>, <<"b", "o", "o", "t", "c", "a", "m", "p", "s">>, <<"c", "a", "m", "p">>, <<"c", "a", "m", "p", "s">>,
     <<"s", "e", "l", "f", " ", "t", "a", "u", "g", "h", "t">> >>

\* for query in &queries { ... res.push(terms) }
TopicMatchers == [i \in 1..Len(queries) |-> Matchers(queries[i])]

Begin(op, query, n) ==
  [Idle EXCEPT !.st = "scan", !.op = op, !.query = query, !.n = n,
               !.todo = DOMAIN posts]

\* search(): the matchers of the query, then the scan starts
search_begin(r, query) ==
  /\ pc = "serving"
  /\ reqs[r].st = "idle"
  /\ reqs' = [reqs EXCEPT ![r] = Begin("search", query, 0)]
  /\ UNCHANGED <<corpus, overflow_checks, slots, pc, argi, paths, posts>>

\* candidates(): the matchers of the topic groups, then the scan starts
candidates_begin(r, n) ==
  /\ pc = "serving"
  /\ reqs[r].st = "idle"
  /\ reqs' = [reqs EXCEPT ![r] = Begin("candidates", <<>>, n)]
  /\ UNCHANGED <<corpus, overflow_checks, slots, pc, argi, paths, posts>>

\* the map and filter closures of search(), on one record
SearchSelects(query, value) ==
  AllMatch(Matchers(query), get_str(value, "title"), get_str(value, "selftext"))

\* the map and filter closures of candidates(), on one record
CandidatesSelects(value) ==
  AnyGroup(TopicMatchers, get_str(value, "title"), get_str(value, "selftext"))

\* the record under id is taken by the scan of r and collected if selected
Collect(r, id, selected) ==
  [reqs EXCEPT ![r].todo = @ \ {id},
               ![r].matches = IF selected THEN Append(@, posts[id]) ELSE @]

\* search_scan with a fault: the scans push into one shared vector
search_scan_shared(r) ==
  /\ reqs[r].st = "scan"
  /\ reqs[r].op = "search"
  /\ \E id \in reqs[r].todo :
       LET selected == SearchSelects(reqs[r].query, posts[id])
       IN  reqs' = [x \in slots |->
                      IF x # r /\ reqs[x].st = "scan" /\ selected
                        THEN [reqs[x] EXCEPT !.matches = Append(@, posts[id])]
                        ELSE Collect(r, id, selected)[x]]
  /\ UNCHANGED <<corpus, overflow_checks, slots, pc, argi, paths, posts>>

\* search(): one record of par_iter().map(..).filter(..).map(..).collect()
search_scan(r) ==
  /\ reqs[r].st = "scan"
  /\ reqs[r].op = "search"
  /\ \E id \in reqs[r].todo :
       reqs' = Collect(r, id, SearchSelects(reqs[r].query, posts[id]))
  /\ UNCHANGED <<corpus, overflow_checks, slots, pc, argi, paths, posts>>

\* candidates(): one record of par_iter().map(..).filter(..).map(..).collect()
candidates_scan(r) ==
  /\ reqs[r].st = "scan"
  /\ reqs[r].op = "candidates"
  /\ \E id \in reqs[r].todo :
       reqs' = Collect(r, id, CandidatesSelects(posts[id]))
  /\ UNCHANGED <<corpus, overflow_checks, slots, pc, argi, paths, posts>>

Done(req, outcome, page) ==
  [req EXCEPT !.st = "done", !.todo = {}, !.matches = <<>>,
              !.outcome = outcome, !.page = page]

\* search(): the page of the matches, in the order the scan delivered them
search_end(r) ==
  /\ reqs[r].st = "scan"
  /\ reqs[r].op = "search"
  /\ reqs[r].todo = {}
  /\ reqs' = [reqs EXCEPT ![r] =
                Done(@, "ok", [NoPage EXCEPT !.count = Len(reqs[r].matches),
                                             !.records = reqs[r].matches])]
  /\ UNCHANGED <<corpus, overflow_checks, slots, pc, argi, paths, posts>>

\* byte order of two strings (str's Ord)
RECURSIVE StrLess(_, _)
StrLess(a, b) ==
  IF b = <<>>
    THEN FALSE
    ELSE IF a = <<>>
           THEN TRUE
           ELSE IF Head(a) = Head(b)
                  THEN StrLess(Tail(a), Tail(b))
                  ELSE CodeOf[Head(a)] < CodeOf[Head(b)]

\* the stable insertion of v into a sequence sorted by id
RECURSIVE InsertSorted(_, _)
InsertSorted(s, v) ==
  IF s = <<>>
    THEN <<v>>
    ELSE IF StrLess(get_str(v, "id"), get_str(Head(s), "id"))
           THEN <<v>> \o s
           ELSE <<Head(s)>> \o InsertSorted(Tail(s), v)

\* sort_by_key with a fault: the sort is left out
sort_by_key_omitted(s) == s

\* matches.sort_by_key(|post| get_str(post, "id"))
RECURSIVE sort_by_key(_)
sort_by_key(s) ==
  IF s = <<>>
    THEN <<>>
    ELSE InsertSorted(sort_by_key(SubSeq(s, 1, Len(s) - 1)), s[Len(s)])

\* usize arithmetic: the wrapped value, and whether it overflowed
UsizeModulus == 2 ^ UsizeBits
UMul(a, b) == [v |-> (a.v * b) % UsizeModulus,
               ovf |-> a.ovf \/ a.v * b >= UsizeModulus]
UAdd(a, b) == [v |-> (a.v + b) % UsizeModulus,
               ovf |-> a.ovf \/ a.v + b >= UsizeModulus]
UDiv(a, b) == [v |-> a.v \div b, ovf |-> a.ovf]
Usize(n) == [v |-> n, ovf |-> FALSE]

\* let start = n * matches.len() / 3
BucketStart(n, len) == UDiv(UMul(Usize(n), len), 3)

\* BucketEnd with a fault: the division is done before the multiplication
BucketEnd_DivFirst(n, len) == UMul(UAdd(Usize(n), 1), len \div 3)

\* BucketEnd with a fault: the quotient is rounded up
BucketEnd_RoundUp(n, len) ==
  UDiv(UAdd(UMul(UAdd(Usize(n), 1), len), 2), 3)

\* let end = (n + 1) * matches.len() / 3
BucketEnd(n, len) == UDiv(UMul(UAdd(Usize(n), 1), len), 3)

\* the rest of candidates() after the scan: sort, bounds, &matches[start..end]
CandidatesPage(matches, n, checks) ==
  LET sorted == sort_by_key(matches)
      len == Len(sorted)
      start == BucketStart(n, len)
      end == BucketEnd(n, len)
  IN  IF checks /\ (start.ovf \/ end.ovf)
        THEN [outcome |-> "panic", page |-> NoPage]
        ELSE IF start.v > end.v \/ end.v > len
               THEN [outcome |-> "panic", page |-> NoPage]
               ELSE [outcome |-> "ok",
                     page |-> [NoPage EXCEPT
                                 !.start = start.v, !.end = end.v,
                                 !.count = len,
                                 !.records = SubSeq(sorted, start.v + 1, end.v)]]

candidates_end(r) ==
  /\ reqs[r].st = "scan"
  /\ reqs[r].op = "candidates"
  /\ reqs[r].todo = {}
  /\ LET out == CandidatesPage(reqs[r].matches, reqs[r].n, overflow_checks)
     IN  reqs' = [reqs EXCEPT ![r] = Done(@, out.outcome, out.page)]
  /\ UNCHANGED <<corpus, overflow_checks, slots, pc, argi, paths, posts>>

\* post(): every ? that finds nothing answers None
PostPage(map, id) ==
  IF id \notin DOMAIN map
    THEN [outcome |-> "none", page |-> NoPage]
    ELSE IF map[id].title.t # "str"
           THEN [outcome |-> "none", page |-> NoPage]
           ELSE IF map[id].selftext.t # "str"
                  THEN [outcome |-> "none", page |-> NoPage]
                  ELSE [outcome |-> "ok",
                        page |-> [NoPage EXCEPT
                                    !.title = map[id].title.s,
                                    !.markdown = map[id].selftext.s]]

post(r, id) ==
  /\ pc = "serving"
  /\ reqs[r].st = "idle"
  /\ LET out == PostPage(posts, id)
     IN  reqs' = [reqs EXCEPT ![r] =
                    Done([Idle EXCEPT !.op = "post", !.id = id],
                         out.outcome, out.page)]
  /\ UNCHANGED <<corpus, overflow_checks, slots, pc, argi, paths, posts>>

\* the response is sent and the request is over
respond(r) ==
  /\ reqs[r].st = "done"
  /\ reqs' = [reqs EXCEPT ![r] = Idle]
  /\ UNCHANGED <<corpus, overflow_checks, slots, pc, argi, paths, posts>>

Next ==
  \/ read_dir
  \/ collect_paths
  \/ \E i \in 1..Len(paths) : open_file(i)
  \/ \E i \in 1..Len(paths) : parse_line(i)
  \/ launch
  \/ \E r \in slots, q \in Queries : search_begin(r, q)
  \/ \E r \in slots, n \in BucketInputs : candidates_begin(r, n)
  \/ \E r \in slots : search_scan(r)
  \/ \E r \in slots : candidates_scan(r)
  \/ \E r \in slots : search_end(r)
  \/ \E r \in slots : candidates_end(r)
  \/ \E r \in slots, id \in LookupIds : post(r, id)
  \/ \E r \in slots : respond(r)

Spec == Init /\ [][Next]_vars

(***************************************************************************)
(* Several requests in flight at once, on the corpora of ConcCorpora.      *)
(***************************************************************************)
ConcQueries == { <<>>, <<"p", "r", "o", "g", "r", "a", "m", "m", "i", "n", "g">> }
ConcBuckets == {2, 4}
ConcIds == { <<"1">>, <<"7">> }

NextConc ==
  \/ read_dir
  \/ collect_paths
  \/ \E i \in 1..Len(paths) : open_file(i)
  \/ \E i \in 1..Len(paths) : parse_line(i)
  \/ launch
  \/ \E r \in slots, q \in ConcQueries : search_begin(r, q)
  \/ \E r \in slots, n \in ConcBuckets : candidates_begin(r, n)
  \/ \E r \in slots : search_scan(r)
  \/ \E r \in slots : candidates_scan(r)
  \/ \E r \in slots : search_end(r)
  \/ \E r \in slots : candidates_end(r)
  \/ \E r \in slots, id \in ConcIds : post(r, id)
  \/ \E r \in slots : respond(r)

SpecConc == InitConc /\ [][NextConc]_vars

(***************************************************************************)
(* search() on every small store and every small query: one record, its    *)
(* title and body drawn from the short strings over SmallAlphabet, loaded  *)
(* from one file, and the server up.                                       *)
(***************************************************************************)
SmallAlphabet == {"c", "C", "+", " "}

Strings(alphabet, n) == UNION {[1..k -> alphabet] : k \in 0..n}

SmallFields(n) == {Str(s) : s \in Strings(SmallAlphabet, n)} \cup {Absent, NonStr}

InitSearch ==
  \E title \in SmallFields(MaxTitleLen), body \in SmallFields(MaxBodyLen) :
    LET value == Value(Str(<<"1">>), title, body)
    IN  /\ corpus = Single(title, body)
        /\ overflow_checks = FALSE
        /\ slots = {1}
        /\ pc = "serving"
        /\ argi = 2
        /\ paths = <<[dir |-> 1, file |-> 1, opened |-> TRUE, next |-> 2]>>
        /\ posts = Insert(EmptyMap, get_str(value, "id"), value)
        /\ reqs = [r \in {1} |-> Idle]

NextSearch ==
  \/ \E r \in slots, q \in Strings(SmallAlphabet, MaxQueryLen) : search_begin(r, q)
  \/ \E r \in slots : search_scan(r)
  \/ \E r \in slots : search_end(r)
  \/ \E r \in slots : respond(r)

SpecSearch == InitSearch /\ [][NextSearch]_vars

(***************************************************************************)
(* What the claims speak of, stated without the program's operators.       *)
(***************************************************************************)
\* a field read as text: an absent or non-string field is the empty string
TextOf(value, key) == IF value[key].t = "str" THEN value[key].s ELSE <<>>

\* the whitespace-separated words of a query: its maximal runs of
\* non-whitespace characters
QueryWords(q) ==
  { SubSeq(q, i, j) : <<i, j>> \in
      { ij \in (1..Len(q)) \X (1..Len(q)) :
          /\ ij[1] <= ij[2]
          /\ \A k \in ij[1]..ij[2] : q[k] \notin Whitespace
          /\ (ij[1] = 1 \/ q[ij[1] - 1] \in Whitespace)
          /\ (ij[2] = Len(q) \/ q[ij[2] + 1] \in Whitespace) } }

\* w occurs in t as a whole word, whatever the case of the letters: an
\* occurrence with no word character right before it or right after it
OccursAsWholeWord(w, t) ==
  \E i \in 1..(Len(t) - Len(w) + 1) :
    /\ \A k \in 1..Len(w) : FoldOf[t[i + k - 1]] = FoldOf[w[k]]
    /\ ~IsWordAt(t, i - 1)
    /\ ~IsWordAt(t, i + Len(w))

InTitleOrBody(w, value) ==
  \/ OccursAsWholeWord(w, TextOf(value, "title"))
  \/ OccursAsWholeWord(w, TextOf(value, "selftext"))

SatisfiesQuery(value, q) == \A w \in QueryWords(q) : InTitleOrBody(w, value)

Stored == {posts[id] : id \in DOMAIN posts}

\* the topic groups, each the set of its words
TopicGroups ==
  { {<<"d", "e", "g", "r", "e", "e">>}, {<<"c", "a", "r", "e", "e", "r">>}, {<<"c", "a", "r", "e", "e", "r", "s">>}, {<<"p", "r", "o", "g", "r", "a", "m", "m", "i", "n", "g">>},
    {<<"s", "c", "h", "o", "o", "l">>}, {<<"l", "e", "a", "r", "n">>}, {<<"l", "e", "a", "r", "n", "i", "n", "g">>}, {<<"s", "w", "i", "t", "c", "h">>},
    {<<"s", "w", "i", "t", "c", "h", "i", "n", "g">>}, {<<"c", "h", "a", "n", "g", "e">>}, {<<"c", "h", "a", "n", "g", "i", "n", "g">>}, {<<"c", "o", "l", "l", "e", "g", "e">>},
    {<<"u", "n", "i", "v", "e", "r", "s", "i", "t", "y">>}, {<<"a", "d", "v", "i", "c", "e">>}, {<<"b", "o", "o", "t", "c", "a", "m", "p">>}, {<<"b", "o", "o", "t", "c", "a", "m", "p", "s">>},
    {<<"c", "a", "m", "p">>}, {<<"c", "a", "m", "p", "s">>}, {<<"s", "e", "l", "f">>, <<"t", "a", "u", "g", "h", "t">>} }

IsCandidate(value) ==
  \E g \in TopicGroups : \A w \in g : InTitleOrBody(w, value)

CandidateSet == {v \in Stored : IsCandidate(v)}

\* a comes before b in byte order
LexLess(a, b) ==
  \E k \in 1..(Len(b)) :
    /\ \A j \in 1..(k - 1) : j <= Len(a) /\ a[j] = b[j]
    /\ k - 1 <= Len(a)
    /\ (k > Len(a) \/ CodeOf[a[k]] < CodeOf[b[k]])

\* the elements of S in ascending order of id
RECURSIVE SortedById(_)
SortedById(S) ==
  IF S = {}
    THEN <<>>
    ELSE LET least == CHOOSE v \in S :
                        \A u \in S \ {v} : LexLess(TextOf(v, "id"), TextOf(u, "id"))
         IN  <<least>> \o SortedById(S \ {least})

SortedCandidates == SortedById(CandidateSet)

NoDuplicates(s) == \A i, j \in 1..Len(s) : s[i] = s[j] => i = j

Reverse(s) == [i \in 1..Len(s) |-> s[Len(s) + 1 - i]]

DoneOp(r, op) == reqs[r].st = "done" /\ reqs[r].op = op

\* the scan of a request running alone, taking the records in descending
\* order of key
ScanAlone(req) ==
  SelectSeq(Reverse(SortedById(Stored)),
            LAMBDA v : IF req.op = "search"
                         THEN SearchSelects(req.query, v)
                         ELSE CandidatesSelects(v))

(***************************************************************************)
(* The claims.                                                             *)
(***************************************************************************)

\* C1: a finished search returns, each once, exactly the stored records in
\* which every word of the query occurs as a case-insensitive whole word in
\* the title or in the body.
C1_SearchExact ==
  \A r \in slots :
    DoneOp(r, "search") =>
      /\ reqs[r].outcome = "ok"
      /\ NoDuplicates(reqs[r].page.records)
      /\ Range(reqs[r].page.records)
           = {v \in Stored : SatisfiesQuery(v, reqs[r].query)}

\* the words of the query all begin and end with a word character
WordEdged(q) ==
  \A w \in QueryWords(q) : w[1] \in WordChars /\ w[Len(w)] \in WordChars

\* C1, for the queries whose words begin and end with a word character
C1_ExactForWordEdged ==
  \A r \in slots :
    DoneOp(r, "search") /\ WordEdged(reqs[r].query) =>
      /\ reqs[r].outcome = "ok"
      /\ NoDuplicates(reqs[r].page.records)
      /\ Range(reqs[r].page.records)
           = {v \in Stored : SatisfiesQuery(v, reqs[r].query)}

\* C2: for n in 0..2 a finished candidates request returns the slice
\* [n*total/3, (n+1)*total/3) of the id-sorted candidates, and the three
\* slices the handler computes are balanced and concatenate to the whole
\* sorted sequence.
C2_BucketsPartition ==
  pc = "serving" =>
    LET sorted == SortedCandidates
        total == Len(sorted)
        bucket == [i \in 0..2 |->
                     CandidatesPage(Reverse(sorted), i, overflow_checks).page]
    IN  /\ \A r \in slots :
             DoneOp(r, "candidates") /\ reqs[r].n \in 0..2 =>
               /\ reqs[r].outcome = "ok"
               /\ reqs[r].page.count = total
               /\ reqs[r].page.start = (reqs[r].n * total) \div 3
               /\ reqs[r].page.end = ((reqs[r].n + 1) * total) \div 3
               /\ reqs[r].page.records
                    = SubSeq(sorted, reqs[r].page.start + 1, reqs[r].page.end)
        /\ bucket[0].records \o bucket[1].records \o bucket[2].records = sorted
        /\ bucket[0].start = 0
        /\ bucket[0].end = bucket[1].start
        /\ bucket[1].end = bucket[2].start
        /\ bucket[2].end = total
        /\ \A i, j \in 0..2 :
             Len(bucket[i].records) - Len(bucket[j].records) \in {-1, 0, 1}

C2_Witness ==
  \E r \in slots :
    /\ DoneOp(r, "candidates")
    /\ reqs[r].n = 1
    /\ reqs[r].page.count = 4
    /\ Len(reqs[r].page.records) = 1

\* C3: a candidates request with bucket_index >= 3 ends in the
\* invalid-argument error: it neither panics nor returns a page.
C3_InvalidArgument ==
  \A r \in slots :
    DoneOp(r, "candidates") /\ reqs[r].n >= 3 =>
      reqs[r].outcome = "invalid_argument"

\* C4: the answer of a finished candidates request is the one the handler
\* gives on the same store with a fixed scan order: it does not depend on
\* the order in which the scan delivered the records.
C4_ScanOrderIndependent ==
  \A r \in slots :
    DoneOp(r, "candidates") =>
      LET alone == CandidatesPage(ScanAlone(reqs[r]), reqs[r].n, overflow_checks)
      IN  /\ reqs[r].outcome = alone.outcome
          /\ reqs[r].page = alone.page

C4_Witness ==
  \E r \in slots :
    /\ DoneOp(r, "candidates")
    /\ reqs[r].outcome = "ok"
    /\ Len(reqs[r].page.records) >= 2

\* C5: a lookup returns the record stored under the id whenever there is
\* one, absent or non-string title and selftext included, and None exactly
\* when no record was loaded under the id.
C5_LookupRoundTrip ==
  \A r \in slots :
    DoneOp(r, "post") =>
      IF reqs[r].id \in DOMAIN posts
        THEN /\ reqs[r].outcome = "ok"
             /\ reqs[r].page.title = TextOf(posts[reqs[r].id], "title")
             /\ reqs[r].page.markdown = TextOf(posts[reqs[r].id], "selftext")
        ELSE reqs[r].outcome = "none"

\* C6 as stated: with exactly one candidate, bucket 0 holds it and buckets 1
\* and 2 are empty.
C6_SingleInBucket0 ==
  \A r \in slots :
    DoneOp(r, "candidates") /\ reqs[r].outcome = "ok"
      /\ reqs[r].page.count = 1 /\ reqs[r].n \in 0..2 =>
        reqs[r].page.records = IF reqs[r].n = 0 THEN SortedCandidates ELSE <<>>

\* C6 as amended: with exactly one candidate, bucket 2 holds it and buckets 0
\* and 1 are empty.
C6_SingleInBucket2 ==
  \A r \in slots :
    DoneOp(r, "candidates") /\ Cardinality(CandidateSet) = 1
      /\ reqs[r].n \in 0..2 =>
        /\ reqs[r].outcome = "ok"
        /\ reqs[r].page.count = 1
        /\ reqs[r].page.records
             = IF reqs[r].n = 2 THEN SortedCandidates ELSE <<>>

C6_Witness ==
  \E r \in slots :
    /\ DoneOp(r, "candidates")
    /\ reqs[r].n = 2
    /\ reqs[r].page.count = 1
    /\ Len(reqs[r].page.records) = 1

\* C7: a search whose query has no word (empty or all whitespace) returns
\* every record of the store.
C7_EmptyQueryReturnsAll ==
  \A r \in slots :
    DoneOp(r, "search") /\ QueryWords(reqs[r].query) = {} =>
      /\ reqs[r].outcome = "ok"
      /\ reqs[r].page.count = Cardinality(DOMAIN posts)
      /\ Range(reqs[r].page.records) = Stored

C7_Witness ==
  \E r \in slots :
    /\ DoneOp(r, "search")
    /\ reqs[r].query # <<>>
    /\ QueryWords(reqs[r].query) = {}
    /\ reqs[r].page.count >= 3

\* what a finished request would have answered had it run alone
AnswersAsAlone(req) ==
  CASE req.op = "search" ->
         /\ req.outcome = "ok"
         /\ req.page.count = Len(ScanAlone(req))
         /\ NoDuplicates(req.page.records)
         /\ Range(req.page.records) = Range(ScanAlone(req))
    [] req.op = "candidates" ->
         LET alone == CandidatesPage(ScanAlone(req), req.n, overflow_checks)
         IN  req.outcome = alone.outcome /\ req.page = alone.page
    [] OTHER ->
         LET alone == PostPage(posts, req.id)
         IN  req.outcome = alone.outcome /\ req.page = alone.page

\* C8: once serving, no step changes the store, and every finished request,
\* whatever ran beside it and whether or not that failed, has the answer it
\* would have had alone.
C8_RequestsIndependent ==
  /\ [](\A r \in slots : reqs[r].st = "done" => AnswersAsAlone(reqs[r]))
  /\ [][pc = "serving" => posts' = posts]_vars

C8_Witness ==
  \E r1, r2 \in slots :
    /\ r1 # r2
    /\ DoneOp(r1, "candidates") /\ reqs[r1].outcome = "panic"
    /\ DoneOp(r2, "search") /\ reqs[r2].page.count = 2
    /\ reqs[r2].page.records[1] = P6

\* the lines of every .json file of every directory named
AllLines ==
  UNION { UNION { Range(args[d].files[f].lines) :
                    f \in {g \in 1..Len(args[d].files) :
                             args[d].files[g].ext = "json"} } :
          d \in 1..Len(args) }

\* some directory is unreadable, some .json file does not open, or some line
\* of one is no JSON
CorpusFault ==
  \/ \E d \in 1..Len(args) : ~args[d].readable
  \/ \E d \in 1..Len(args) : \E f \in 1..Len(args[d].files) :
       /\ args[d].files[f].ext = "json"
       /\ \/ ~args[d].files[f].opens
          \/ \E l \in Range(args[d].files[f].lines) : ~l.json

LoadComplete ==
  /\ DOMAIN posts = {TextOf(l.post, "id") : l \in AllLines}
  /\ \A id \in DOMAIN posts :
       \E l \in AllLines : TextOf(l.post, "id") = id /\ posts[id] = l.post

\* C9: a request is only ever in progress or answered while the process
\* serves, the process serves only the map built from every line of every
\* .json file, and a corpus with a fault is never served.
C9_ServeAfterLoad ==
  /\ (\E r \in slots : reqs[r].st # "idle") => pc = "serving"
  /\ pc = "serving" => LoadComplete /\ ~CorpusFault
  /\ pc = "aborted" => \A r \in slots : reqs[r] = Idle

C9_Witness ==
  /\ pc = "serving"
  /\ Len(paths) = 2
  /\ Cardinality(DOMAIN posts) = 4
  /\ \E r \in slots : reqs[r].st = "done"

\* C10: the records a candidates scan selects are exactly the stored records
\* for which some topic group has every word as a whole word in the title or
\* the body, and a page holds only such records.
C10_CandidateIffGroup ==
  \A r \in slots :
    /\ reqs[r].st = "scan" /\ reqs[r].op = "candidates" /\ reqs[r].todo = {} =>
         /\ NoDuplicates(reqs[r].matches)
         /\ Range(reqs[r].matches) = CandidateSet
    /\ DoneOp(r, "candidates") /\ reqs[r].outcome = "ok" =>
         /\ reqs[r].page.count = Cardinality(CandidateSet)
         /\ Range(reqs[r].page.records) \subseteq CandidateSet

C10_Witness ==
  \E r \in slots :
    /\ reqs[r].st = "scan" /\ reqs[r].op = "candidates" /\ reqs[r].todo = {}
    /\ P3 \in Range(reqs[r].matches)
    /\ P5 \in Stored
    /\ P5 \notin Range(reqs[r].matches)

=============================================================================
